---- MODULE Spec2Model ----
(***************************************************************************)
(* Monitoring scheduler of the Monitoring_tool backend: the two node-cron  *)
(* sweep tasks of jobs/monitoringScheduler.js, the immediate check done by *)
(* scheduleMonitor/restartMonitor, the URL handlers of monitorController,  *)
(* and the HTTP and TLS probes with their writes to the Urls and           *)
(* MonitoringLogs tables.  Time is counted in whole minutes, the grain of  *)
(* the '*/1 * * * *' cron expression.                                      *)
(***************************************************************************)
EXTENDS Integers, Sequences, FiniteSets, TLC

\* ---------------------------------------------------------------- bounds
MaxUrls   == 2      \* rows ever inserted into Urls (ids 1..MaxUrls)
MaxTime   == 2      \* minutes of simulated time
MaxOps    == 2      \* addUrl/updateUrl/deleteUrl requests served
MaxStarts == 2      \* calls of start()
TickCap   == 3      \* the per-schedule tick counter stops counting here
MaxCalls  == 2      \* probe functions called on their own, one after the other

\* ------------------------------------------------------ program constants
MinutesPerDay   == 1440
CertSweepMinute == 120     \* cron '0 2 * * *'
certWarningDays == 30      \* config.alerting.certWarningDays
HoursPerDay     == 24      \* 1000 * 60 * 60 * 24 ms, counted in hours

BootMinute == CertSweepMinute - 1       \* minute of the day at which the process boots
EpochBase == 55 * 365 * MinutesPerDay   \* minutes from 1970-01-01 to the boot

\* What the environment can answer to one probe.
\* HTTP: the status received, 0 when no response came (network error, timeout).
\* TLS: how the connection went, what getPeerCertificate() gave, notAfter - now in hours.
TlsCerts(diffs) == [net : {"handshake"}, cert : {"ok"}, diff : diffs]
TlsOther ==
    [net : {"handshake"}, cert : {"missing", "throws"}, diff : {0}]
    \cup [net : {"handshake"}, cert : {"throws_late"}, diff : {120}]
    \cup [net : {"error", "timeout"}, cert : {"missing"}, diff : {0}]

VARIABLES
    now,              \* minutes since boot
    cronTasks,        \* every task cron.schedule() has created: [kind, running]
    apiMonitorTask,   \* index into cronTasks, 0 for null
    certMonitorTask,  \* index into cronTasks, 0 for null
    Urls,             \* the Urls table: id -> row
    nextId,           \* AUTO_INCREMENT of Urls
    MonitoringLogs,   \* the MonitoringLogs table, per url_id: row count and newest row
    pending,          \* cron tasks whose callback is due in the current minute
    sweeps,           \* per cron task: the rows its running callback still has to check
    inflight,         \* immediate checks started by scheduleMonitor and not yet finished
    ops,              \* requests served so far
    starts,           \* calls of start() so far
    stoppedAll,       \* stop() was called after the last start()
    stopMark,         \* ids for which stopMonitor() ran and scheduleMonitor() did not since
    sched,            \* per id: the last scheduleMonitor() call and the ticks since
    fired,            \* per id: sweep ticks started in the current minute
    lastStart,        \* the tick started by the last step that started one
    lastDone,         \* the tick finished by the last step that finished one
    call,             \* a function called on its own: its progress and its result
    AlertConfigs      \* the AlertConfigs table: per user, no row or one row

vars == <<now, cronTasks, apiMonitorTask, certMonitorTask, Urls, nextId,
          MonitoringLogs, pending, sweeps, inflight, ops, starts, stoppedAll,
          stopMark, sched, fired, lastStart, lastDone, call, AlertConfigs>>

Ids == 1..MaxUrls

NoSched == [on |-> FALSE, at |-> 0, n |-> 0, ticks |-> 0, calls |-> 0, changed |-> FALSE]
NoStart == [id |-> 0, probe |-> "none", src |-> "none", kind |-> "none", afterStop |-> FALSE]
NoDone  == [id |-> 0, probe |-> "none", src |-> "none", noResponse |-> FALSE,
            store |-> "none", status |-> "none", cert |-> "none", days |-> <<>>,
            alert |-> "none", alertUser |-> 0, threw |-> FALSE, before |-> "none"]
NoLog   == [n |-> 0, status |-> "none", code |-> 0, error |-> "null"]
NoTls   == [net |-> "none", cert |-> "none", diff |-> 0]
NoHttp  == [kind |-> "none", status |-> 0]
NoResult == [status |-> "none", latency |-> "none", statusCode |-> <<>>, error |-> "none",
             cert |-> "none", days |-> <<>>]
\* JavaScript values of an OID: a string (its characters), a number, null.
Str(chars) == [t |-> "string", v |-> chars]
Null == [t |-> "null", v |-> <<>>]
Users == {1, 2}
NoConfig == [email_recipient |-> "null", snmp_receiver_host |-> "null",
             snmp_community |-> "null", snmp_api_down_oid |-> Null,
             snmp_cert_expiry_oid |-> Null, cert_warning_days |-> 0]
NoTrap  == [outcome |-> "none", session |-> FALSE, oid |-> Null]
NoAlert == [fn |-> "none", user |-> 0, lookup |-> "none", row |-> <<>>,
            config |-> NoConfig, email |-> "none", mail |-> "none", trap |-> NoTrap,
            wording |-> "none", days |-> <<>>, threw |-> FALSE]
NoCall  == [fn |-> "none", phase |-> "idle", n |-> 0, id |-> 0, socket |-> "none",
            settles |-> 0, http |-> NoHttp, tls |-> NoTls, store |-> "none",
            result |-> NoResult, returned |-> "none", threw |-> FALSE,
            errorBefore |-> "none", logsBefore |-> 0, alert |-> NoAlert]

\* Minute of the day of the current minute.
MinuteOfDay(t) == (BootMinute + t) % MinutesPerDay

\* ------------------------------------------------------------ the store
\* INSERT INTO Urls (...): the status columns start NULL.  https: the url starts
\* with 'https://'; parses: new URL(url) accepts it.
NewRow(user, type, interval, active, https) ==
    [user_id |-> user, type |-> type, monitoring_interval_minutes |-> interval,
     is_active |-> active, https |-> https, parses |-> TRUE,
     last_status |-> "null", last_checked_at |-> 0,
     certificate_status |-> "null", days_remaining |-> <<>>, last_error |-> "null"]

\* SELECT u.* ... WHERE u.id = ?: the urlObject of a row.
UrlObject(id) == [id |-> id] @@ Urls[id]

\* The API sweep's SELECT: it lists no last_checked_at column, so the entry's
\* last_checked_at is undefined, which the gate reads as new Date(0).
ApiSweepEntry(id) ==
    [id |-> id, user_id |-> Urls[id].user_id, type |-> Urls[id].type,
     monitoring_interval_minutes |-> Urls[id].monitoring_interval_minutes,
     https |-> Urls[id].https, parses |-> Urls[id].parses, last_checked_at |-> 0]

\* The certificate sweep's SELECT id, user_id, name, url, type.
CertSweepEntry(id) ==
    [id |-> id, user_id |-> Urls[id].user_id, type |-> Urls[id].type,
     monitoring_interval_minutes |-> 0, https |-> Urls[id].https,
     parses |-> Urls[id].parses, last_checked_at |-> 0]

RECURSIVE SeqOfSet(_)
SeqOfSet(S) ==
    IF S = {} THEN <<>>
    ELSE LET m == CHOOSE x \in S : \A y \in S : x <= y
         IN  <<m>> \o SeqOfSet(S \ {m})

ActiveOfType(type) ==
    {id \in DOMAIN Urls : Urls[id].is_active /\ Urls[id].type = type}

\* minutesSinceLastCheck >= intervalMinutes
Due(entry, t) ==
    (EpochBase + t) - entry.last_checked_at >= entry.monitoring_interval_minutes

\* The for loop up to its next await: entries not yet due are skipped at once.
RECURSIVE SkipUntilDue(_, _)
SkipUntilDue(queue, t) ==
    IF queue = <<>> THEN <<>>
    ELSE IF Due(Head(queue), t) THEN queue
    ELSE SkipUntilDue(Tail(queue), t)

Min(a, b) == IF a <= b THEN a ELSE b

\* ----------------------------------------------------------- the probes
\* Variant of the day count that rounds down: Math.floor.
FloorDays(diffHours) == diffHours \div HoursPerDay

\* Math.ceil(diffTime / (1000 * 60 * 60 * 24)), diffTime counted in hours.
CeilDays(diffHours) == -((-diffHours) \div HoursPerDay)

\* null <= k in JavaScript compares 0 with k.
DaysAtMost(days, k) == IF days = <<>> THEN 0 <= k ELSE days[1] <= k

\* What axios.get gave: a response with its status, or a rejection and its reason.
HttpCode(reply) == IF reply.kind = "response" THEN reply.status ELSE 0

\* Variant of checkApiUrlStatus that counts client errors as failures: 'up' below
\* 400 only.
CheckApiUrlStatusBelow400(entry, reply, store) ==
    LET received == reply # 0
        up       == received /\ reply >= 200 /\ reply < 400
    IN  [status     |-> IF up THEN "up" ELSE "down",
         statusCode |-> IF received THEN reply ELSE 0,
         error      |-> IF up THEN "null"
                        ELSE IF received THEN "http_status" ELSE "network",
         alert      |-> IF up THEN "none" ELSE "api_down",
         alertUser  |-> IF up THEN 0 ELSE entry.user_id,
         wroteUrl   |-> store # "update_fails",
         wroteLog   |-> store = "ok",
         threw      |-> FALSE]

\* checkApiUptime declares `start` by const inside its try block, so the catch
\* block, whose first statement reads `start`, cannot see it.
StartInScope == FALSE

\* Variant of checkApiUptime whose finally block does not return: the
\* ReferenceError of the catch block reaches the caller.
CheckApiUptimeNoReturn(reply) ==
    IF reply.kind = "response"
    THEN [status |-> "up", latency |-> "ms", statusCode |-> <<reply.status>>,
          error |-> "null", threw |-> FALSE]
    ELSE [status |-> "down", latency |-> "null", statusCode |-> <<>>,
          error |-> "null", threw |-> TRUE]

\* apiMonitorService.checkApiUptime up to its finally block: any response is 'up'.
\* On a rejection the catch block throws a ReferenceError at its first statement,
\* before it sets statusCode and error; the return in the finally block discards it.
CheckApiUptime(reply) ==
    IF reply.kind = "response"
    THEN [status |-> "up", latency |-> "ms", statusCode |-> <<reply.status>>,
          error |-> "null", threw |-> FALSE]
    ELSE IF StartInScope
    THEN [status |-> "down", latency |-> "ms",
          statusCode |-> IF reply.kind = "timeout" THEN <<408>> ELSE <<>>,
          error |-> reply.kind, threw |-> FALSE]
    ELSE [status |-> "down", latency |-> "null", statusCode |-> <<>>,
          error |-> "null", threw |-> FALSE]

\* Variant of checkApiUrlStatus that alerts from its catch block only: a 5xx
\* response is recorded as down without an alert.
CheckApiUrlStatusSilent5xx(entry, reply, store) ==
    LET received == reply # 0
        up       == received /\ reply >= 200 /\ reply < 500
    IN  [status     |-> IF up THEN "up" ELSE "down",
         statusCode |-> IF received THEN reply ELSE 0,
         error      |-> IF up THEN "null"
                        ELSE IF received THEN "http_status" ELSE "network",
         alert      |-> IF received THEN "none" ELSE "api_down",
         alertUser  |-> IF received THEN 0 ELSE entry.user_id,
         wroteUrl   |-> store # "update_fails",
         wroteLog   |-> store = "ok",
         threw      |-> FALSE]

\* apiMonitorService.checkApiUrlStatus: one GET and the two store writes.
\* reply is the HTTP status received, 0 when axios.get rejected.
CheckApiUrlStatus(entry, reply, store) ==
    LET received == reply # 0
        up       == received /\ reply >= 200 /\ reply < 500
    IN  [status     |-> IF up THEN "up" ELSE "down",
         statusCode |-> IF received THEN reply ELSE 0,
         error      |-> IF up THEN "null"
                        ELSE IF received THEN "http_status" ELSE "network",
         alert      |-> IF up THEN "none" ELSE "api_down",
         alertUser  |-> IF up THEN 0 ELSE entry.user_id,
         wroteUrl   |-> store # "update_fails",
         wroteLog   |-> store = "ok",
         threw      |-> FALSE]

\* Variant of the native classification whose 'timeout' handler sets no error.
CertClassSilentTimeout(reply) ==
    IF reply.net # "handshake"
    THEN [status |-> "not_reachable", daysRemaining |-> <<>>, overallStatus |-> "down",
          error |-> IF reply.net = "error" THEN "tls_error" ELSE "null"]
    ELSE [status |-> "unavailable", daysRemaining |-> <<>>, overallStatus |-> "up",
          error |-> "cert_unavailable"]

\* certMonitorService.checkCertStatus (native TLS revision): the classification.
CertClass(reply) ==
    IF reply.net # "handshake"
    THEN [status |-> "not_reachable", daysRemaining |-> <<>>, overallStatus |-> "down",
          error |-> IF reply.net = "error" THEN "tls_error" ELSE "tls_timeout"]
    ELSE IF reply.cert = "throws"          \* getPeerCertificate() threw
    THEN [status |-> "error", daysRemaining |-> <<>>, overallStatus |-> "up",
          error |-> "cert_error"]
    ELSE IF reply.cert = "throws_late"     \* reading cert.issuer or cert.subject threw
    THEN [status |-> "error", daysRemaining |-> <<CeilDays(reply.diff)>>,
          overallStatus |-> "up", error |-> "cert_error"]
    ELSE IF reply.cert = "missing"
    THEN [status |-> "unavailable", daysRemaining |-> <<>>, overallStatus |-> "up",
          error |-> "cert_unavailable"]
    ELSE LET days == CeilDays(reply.diff)
         IN  [status |-> IF reply.diff < 0 THEN "expired"
                         ELSE IF days <= certWarningDays THEN "warning" ELSE "valid",
              daysRemaining |-> <<days>>, overallStatus |-> "up", error |-> "null"]

\* Variant of checkCertStatus without the shortcut for URLs that are not https.
CheckCertStatusNoShortcut(entry, reply, store) ==
    LET c == CertClass(reply)
    IN  c @@ [lastError |-> c.error,
              wroteUrl  |-> store # "update_fails",
              threw     |-> FALSE]

\* Variant of checkCertStatus with new URL(url) inside a try block, as the
\* node-forge revision has it: an https URL that does not parse is a result.
CheckCertStatusUrlCaught(entry, reply, store) ==
    LET c == IF ~entry.https
             THEN [status |-> "not_applicable", daysRemaining |-> <<>>,
                   overallStatus |-> "up", error |-> "null"]
             ELSE IF ~entry.parses
             THEN [status |-> "error", daysRemaining |-> <<>>,
                   overallStatus |-> "down", error |-> "invalid_url"]
             ELSE CertClass(reply)
    IN  c @@ [lastError |-> IF ~entry.https THEN "keep" ELSE c.error,
              wroteUrl  |-> store # "update_fails",
              threw     |-> FALSE]

\* `const hostname = new URL(url).hostname` stands outside every try block: for an
\* https URL it does not accept (a port above 65535), checkCertStatus rejects
\* before it has connected or written anything.
InvalidUrlThrown ==
    [status |-> "none", daysRemaining |-> <<>>, overallStatus |-> "none",
     error |-> "invalid_url", lastError |-> "keep", wroteUrl |-> FALSE, threw |-> TRUE]

\* checkCertStatus: the non-https shortcut, else the TLS connection, then one UPDATE.
\* lastError is what the UPDATE does to last_error: "keep" when it does not name it.
CheckCertStatus(entry, reply, store) ==
    IF entry.https /\ ~entry.parses
    THEN InvalidUrlThrown
    ELSE LET c == IF ~entry.https
                  THEN [status |-> "not_applicable", daysRemaining |-> <<>>,
                        overallStatus |-> "up", error |-> "null"]
                  ELSE CertClass(reply)
         IN  c @@ [lastError |-> IF ~entry.https THEN "keep" ELSE c.error,
                   wroteUrl  |-> store # "update_fails",
                   threw     |-> FALSE]

\* checkCertStatus, node-forge revision: the classification.  Its handlers reject
\* the promise on a connection error, on a timeout and when the certificate
\* cannot be read, and the catch block around the await then sets
\* overallStatus = 'down' and daysRemaining = null.
CertClassForge(reply) ==
    IF reply.net # "handshake"
    THEN [status |-> "not_reachable", daysRemaining |-> <<>>, overallStatus |-> "down",
          error |-> IF reply.net = "error" THEN "tls_error" ELSE "tls_timeout"]
    ELSE IF reply.cert \in {"throws", "throws_late"}
    THEN [status |-> "error", daysRemaining |-> <<>>, overallStatus |-> "down",
          error |-> "cert_error"]
    ELSE IF reply.cert = "missing"
    THEN [status |-> "unavailable", daysRemaining |-> <<>>, overallStatus |-> "up",
          error |-> "cert_unavailable"]
    ELSE LET days == CeilDays(reply.diff)
         IN  [status |-> IF reply.diff < 0 THEN "expired"
                         ELSE IF days <= certWarningDays THEN "warning" ELSE "valid",
              daysRemaining |-> <<days>>, overallStatus |-> "up", error |-> "null"]

\* checkCertStatus, node-forge revision: its UPDATE never names last_error.
CheckCertStatusForge(entry, reply, store) ==
    LET c == IF ~entry.https
             THEN [status |-> "not_applicable", daysRemaining |-> <<>>,
                   overallStatus |-> "up", error |-> "null"]
             ELSE IF ~entry.parses      \* new URL(url) throws inside the try block
             THEN [status |-> "error", daysRemaining |-> <<>>,
                   overallStatus |-> "down", error |-> "invalid_url"]
             ELSE CertClassForge(reply)
    IN  c @@ [lastError |-> "keep",
              wroteUrl  |-> store # "update_fails",
              threw     |-> FALSE]

\* The certificate sweep's decision to call sendCertificateExpiryAlert.
CertAlertDue(result) ==
    \/ result.status = "expired"
    \/ result.status = "warning" /\ DaysAtMost(result.daysRemaining, certWarningDays)

\* The cron task whose SELECT ... WHERE u.type = ? names the type.
TaskKind(type) == IF type = "API" THEN "api" ELSE "cert"

ProbeOf(type) == IF type = "API" THEN "http" ELSE IF type = "DOMAIN" THEN "tls" ELSE "none"

\* ------------------------------------------------------ the environment
\* The rows found at boot, the requests and the replies one specification lets the
\* environment choose from.
\* Scheduling: every definition change of a URL, probes that answer or not.
SchedulingEnv ==
    [users     |-> {1},
     adds      |-> [type : {"API", "DOMAIN"}, interval : {1, 2},
                    active : BOOLEAN, https : {TRUE}],
     updates   |-> [field : {"type"}, value : {"API", "DOMAIN"}]
                   \cup [field : {"monitoring_interval_minutes"}, value : {1, 2}]
                   \cup [field : {"is_active"}, value : BOOLEAN],
     tables    |-> {<<>>, <<NewRow(1, "API", 1, TRUE, TRUE), NewRow(1, "API", 2, TRUE, TRUE)>>},
     requests  |-> MaxOps,
     maxStarts |-> 1,
     maxRows   |-> MaxUrls,
     http      |-> {200, 0},
     tls       |-> TlsCerts({721}) \cup [net : {"error"}, cert : {"missing"}, diff : {0}],
     store     |-> {"ok"},
     storeCert |-> {"ok"},
     query     |-> {"ok"}]

\* Rescheduling: URLs of one user, added active and then updated in any column, the
\* target and the store always answering.
RescheduleEnv ==
    [users     |-> {1},
     adds      |-> [type : {"API", "DOMAIN"}, interval : {1}, active : {TRUE},
                    https : {TRUE}],
     updates   |-> [field : {"type"}, value : {"API", "DOMAIN"}]
                   \cup [field : {"monitoring_interval_minutes"}, value : {1, 2}]
                   \cup [field : {"is_active"}, value : BOOLEAN],
     tables    |-> {<<>>},
     requests  |-> MaxOps,
     maxStarts |-> 1,
     maxRows   |-> MaxUrls - 1,
     http      |-> {200},
     tls       |-> TlsCerts({721}),
     store     |-> {"ok"},
     storeCert |-> {"ok"},
     query     |-> {"ok"}]

\* Restarting: start() called again, URLs only added.
RestartEnv ==
    [users     |-> {1},
     adds      |-> [type : {"API", "DOMAIN"}, interval : {1}, active : BOOLEAN,
                    https : {TRUE}],
     updates   |-> [field : {"is_active"}, value : BOOLEAN],
     tables    |-> {<<>>},
     requests  |-> MaxOps,
     maxStarts |-> MaxStarts,
     maxRows   |-> MaxUrls,
     http      |-> {200, 0},
     tls       |-> TlsCerts({721}),
     store     |-> {"ok"},
     storeCert |-> {"ok"},
     query     |-> {"ok"}]

\* Sweeping: two DOMAIN or two API targets found at boot, the URL of the first
\* DOMAIN target being an https URL with a port that new URL() does not accept.
SweepEnv ==
    [users     |-> {1},
     adds      |-> [type : {"API", "DOMAIN"}, interval : {1}, active : {TRUE},
                    https : {TRUE}],
     updates   |-> [field : {"is_active"}, value : BOOLEAN],
     tables    |-> {<<>>,
                    <<[NewRow(1, "DOMAIN", 1, TRUE, TRUE) EXCEPT !.parses = FALSE,
                                                               !.last_status = "up"],
                      NewRow(2, "DOMAIN", 1, TRUE, TRUE)>>,
                    <<NewRow(1, "API", 1, TRUE, TRUE), NewRow(2, "API", 1, TRUE, TRUE)>>},
     requests  |-> MaxOps,
     maxStarts |-> 1,
     maxRows   |-> MaxUrls,
     http      |-> {200, 0},
     tls       |-> TlsCerts({721}),
     store     |-> {"ok"},
     storeCert |-> {"ok"},
     query     |-> {"ok"}]

\* Probing: every reply of the target and of the store to the checks of one URL,
\* added by user 1 or found at boot, user 2's checked 'up' by an earlier run.
ProbeEnv ==
    [users     |-> {1},
     adds      |-> [type : {"API", "DOMAIN"}, interval : {1}, active : {TRUE},
                    https : {TRUE}],
     updates   |-> [field : {"url"}, value : BOOLEAN],
     tables    |-> {<<>>,
                    <<[NewRow(2, "API", 1, TRUE, TRUE) EXCEPT !.last_status = "up",
                                                            !.last_checked_at = EpochBase - 1]>>,
                    <<NewRow(1, "DOMAIN", 1, TRUE, TRUE)>>},
     requests  |-> MaxOps,
     maxStarts |-> 1,
     maxRows   |-> 1,
     http      |-> {200, 503, 0},
     tls       |-> TlsCerts({-25, 120, 721})
                   \cup [net : {"error"}, cert : {"missing"}, diff : {0}]
                   \cup [net : {"handshake"}, cert : {"throws_late"}, diff : {120}],
     store     |-> {"ok", "update_fails", "insert_fails"},
     storeCert |-> {"ok", "update_fails"},
     query     |-> {"ok", "fails"}]

\* ------------------------------------------------------- initial state
\* The module is loaded (both task handles null), connectDB() has succeeded
\* and the Urls table holds the rows of an earlier run, none checked yet.
InitIn(E) ==
    /\ now = 0
    /\ cronTasks = <<>>
    /\ apiMonitorTask = 0
    /\ certMonitorTask = 0
    /\ Urls \in E.tables
    /\ nextId = Len(Urls) + 1
    /\ MonitoringLogs = [id \in Ids |-> NoLog]
    /\ pending = {}
    /\ sweeps = <<>>
    /\ inflight = <<>>
    /\ ops = 0
    /\ starts = 0
    /\ stoppedAll = FALSE
    /\ stopMark = {}
    /\ sched = [id \in Ids |-> NoSched]
    /\ fired = [id \in Ids |-> 0]
    /\ lastStart = NoStart
    /\ lastDone = NoDone
    /\ call = NoCall
    /\ AlertConfigs = [u \in Users |-> <<>>]

\* ------------------------------------------------------------ bookkeeping
TickStarted(id, probe, src, kind) ==
    [id |-> id, probe |-> probe, src |-> src, kind |-> kind, afterStop |-> id \in stopMark]

KindNow(id) == IF id \in DOMAIN Urls THEN Urls[id].type ELSE "gone"

SchedTicked(id) ==
    [sched EXCEPT ![id].ticks = IF sched[id].on THEN Min(@ + 1, TickCap) ELSE @]

\* ------------------------------------------------------------ scheduler
\* start(): two cron.schedule() calls whose tasks overwrite the two handles.
start(maxStarts) ==
    /\ starts < maxStarts
    /\ cronTasks' = cronTasks \o <<[kind |-> "api", running |-> TRUE],
                                   [kind |-> "cert", running |-> TRUE]>>
    /\ apiMonitorTask' = Len(cronTasks) + 1
    /\ certMonitorTask' = Len(cronTasks) + 2
    /\ sweeps' = sweeps \o << <<>>, <<>> >>
    /\ starts' = starts + 1
    /\ stoppedAll' = FALSE
    /\ lastStart' = NoStart
    /\ lastDone' = NoDone
    /\ UNCHANGED <<now, Urls, nextId, MonitoringLogs, pending, inflight, ops,
                   stopMark, sched, fired>>

\* stop(): stops the two tasks the handles point at.
stop ==
    /\ starts >= 1
    /\ ~stoppedAll
    /\ cronTasks' = [i \in DOMAIN cronTasks |->
                        IF i \in {apiMonitorTask, certMonitorTask}
                        THEN [cronTasks[i] EXCEPT !.running = FALSE]
                        ELSE cronTasks[i]]
    /\ pending' = pending \ {apiMonitorTask, certMonitorTask}
    /\ stoppedAll' = TRUE
    /\ lastStart' = NoStart
    /\ lastDone' = NoDone
    /\ UNCHANGED <<now, apiMonitorTask, certMonitorTask, Urls, nextId, MonitoringLogs,
                   sweeps, inflight, ops, starts, stopMark, sched, fired>>

\* stopMonitor(urlId): logs, and touches no task.
stopMonitor(urlId) ==
    /\ stopMark' = stopMark \cup {urlId}
    /\ sched' = [sched EXCEPT ![urlId] = NoSched]
    /\ lastStart' = NoStart
    /\ UNCHANGED <<cronTasks, apiMonitorTask, certMonitorTask, sweeps, inflight>>

\* Variant of scheduleMonitor that gives the URL a cron task of its own on every
\* call and stops none.
scheduleMonitorOwnTask(urlObject, intervalChanged) ==
    IF ~urlObject.is_active
    THEN stopMonitor(urlObject.id)
    ELSE /\ cronTasks' = Append(cronTasks, [kind |-> TaskKind(urlObject.type),
                                            running |-> TRUE])
         /\ sweeps' = Append(sweeps, <<>>)
         /\ inflight' = Append(inflight,
                [id |-> urlObject.id, user_id |-> urlObject.user_id,
                 https |-> urlObject.https, parses |-> urlObject.parses,
                 probe |-> ProbeOf(urlObject.type)])
         /\ stopMark' = stopMark \ {urlObject.id}
         /\ sched' = [sched EXCEPT ![urlObject.id] =
                [on |-> TRUE, at |-> now, n |-> urlObject.monitoring_interval_minutes,
                 ticks |-> 1, calls |-> IF @.on THEN Min(@.calls + 1, 2) ELSE 1,
                 changed |-> intervalChanged]]
         /\ lastStart' = [TickStarted(urlObject.id, ProbeOf(urlObject.type),
                                      "immediate", urlObject.type)
                          EXCEPT !.afterStop = FALSE]
         /\ UNCHANGED <<apiMonitorTask, certMonitorTask>>

\* scheduleMonitor(urlObject): no task is created; an active URL is checked at once
\* by the probe of its type.  intervalChanged: the call follows an update that
\* changed monitoring_interval_minutes.
scheduleMonitor(urlObject, intervalChanged) ==
    IF ~urlObject.is_active
    THEN stopMonitor(urlObject.id)
    ELSE /\ inflight' = Append(inflight,
                [id |-> urlObject.id, user_id |-> urlObject.user_id,
                 https |-> urlObject.https, parses |-> urlObject.parses,
                 probe |-> ProbeOf(urlObject.type)])
         /\ stopMark' = stopMark \ {urlObject.id}
         /\ sched' = [sched EXCEPT ![urlObject.id] =
                [on |-> TRUE, at |-> now, n |-> urlObject.monitoring_interval_minutes,
                 ticks |-> 1, calls |-> IF @.on THEN Min(@.calls + 1, 2) ELSE 1,
                 changed |-> intervalChanged]]
         /\ lastStart' = [TickStarted(urlObject.id, ProbeOf(urlObject.type),
                                      "immediate", urlObject.type)
                          EXCEPT !.afterStop = FALSE]
         /\ UNCHANGED <<cronTasks, apiMonitorTask, certMonitorTask, sweeps>>

\* restartMonitor(urlObject)
restartMonitor(urlObject, intervalChanged) ==
    IF urlObject.is_active
    THEN scheduleMonitor(urlObject, intervalChanged)
    ELSE stopMonitor(urlObject.id)

\* ------------------------------------------------------------- handlers
\* addUrl: INSERT, SELECT the new row, scheduleMonitor() if it is active.
addUrl(user, type, interval, active, https, maxRows) ==
    /\ starts >= 1
    /\ ops < MaxOps
    /\ nextId <= maxRows
    /\ LET row == NewRow(user, type, interval, active, https)
       IN  /\ Urls' = Urls @@ (nextId :> row)
           /\ IF active
              THEN scheduleMonitor([id |-> nextId] @@ row, FALSE)
              ELSE /\ lastStart' = NoStart
                   /\ UNCHANGED <<cronTasks, apiMonitorTask, certMonitorTask, sweeps,
                                  inflight, stopMark, sched>>
    /\ nextId' = nextId + 1
    /\ ops' = ops + 1
    /\ lastDone' = NoDone
    /\ UNCHANGED <<now, MonitoringLogs, pending, starts, stoppedAll, fired>>

\* updateUrl: UPDATE the columns the request names (here one), SELECT the row,
\* restartMonitor().
UpdatedRow(row, field, value) ==
    IF field = "type" THEN [row EXCEPT !.type = value]
    ELSE IF field = "monitoring_interval_minutes"
    THEN [row EXCEPT !.monitoring_interval_minutes = value]
    ELSE IF field = "is_active" THEN [row EXCEPT !.is_active = value]
    ELSE [row EXCEPT !.https = value, !.parses = TRUE]

updateUrl(id, field, value) ==
    /\ starts >= 1
    /\ ops < MaxOps
    /\ id \in DOMAIN Urls
    /\ LET row == UpdatedRow(Urls[id], field, value)
       IN  /\ Urls' = [Urls EXCEPT ![id] = row]
           /\ restartMonitor([id |-> id] @@ row,
                  Urls[id].monitoring_interval_minutes # row.monitoring_interval_minutes)
    /\ ops' = ops + 1
    /\ lastDone' = NoDone
    /\ UNCHANGED <<now, nextId, MonitoringLogs, pending, starts, stoppedAll, fired>>

\* deleteUrl: DELETE the row (its logs cascade); the stopMonitor() call that follows
\* throws a TypeError, the module exporting no such function, and is caught.
deleteUrl(id) ==
    /\ starts >= 1
    /\ ops < MaxOps
    /\ id \in DOMAIN Urls
    /\ Urls' = [i \in DOMAIN Urls \ {id} |-> Urls[i]]
    /\ MonitoringLogs' = [MonitoringLogs EXCEPT ![id] = NoLog]
    /\ sched' = [sched EXCEPT ![id] = NoSched]
    /\ ops' = ops + 1
    /\ lastStart' = NoStart
    /\ lastDone' = NoDone
    /\ UNCHANGED <<now, cronTasks, apiMonitorTask, certMonitorTask, nextId, pending,
                   sweeps, inflight, starts, stoppedAll, stopMark, fired>>

\* ------------------------------------------------------------ the clock
Quiet == pending = {} /\ inflight = <<>> /\ \A i \in DOMAIN sweeps : sweeps[i] = <<>>

FiresAt(task, t) ==
    task.kind = "api" \/ MinuteOfDay(t) = CertSweepMinute

\* A minute boundary: node-cron makes the callback of every running task whose
\* expression matches the new minute due.  Probes end within their timeouts
\* (15 s for HTTP, 10 s for TLS), so none is left over from the minute before.
clockMinute ==
    /\ now < MaxTime
    /\ Quiet
    /\ now' = now + 1
    /\ pending' = {i \in DOMAIN cronTasks :
                      cronTasks[i].running /\ FiresAt(cronTasks[i], now + 1)}
    /\ fired' = [id \in Ids |-> 0]
    /\ lastStart' = NoStart
    /\ lastDone' = NoDone
    /\ UNCHANGED <<cronTasks, apiMonitorTask, certMonitorTask, Urls, nextId,
                   MonitoringLogs, sweeps, inflight, ops, starts, stoppedAll,
                   stopMark, sched>>

\* The sweep's for loop from one await to the next: the entries not due are
\* skipped and the probe of the first due entry is entered.
runSweepLoop(i, queue, probe, src) ==
    LET rest == SkipUntilDue(queue, now)
    IN  /\ sweeps' = [sweeps EXCEPT ![i] = rest]
        /\ IF rest = <<>>
           THEN /\ lastStart' = NoStart
                /\ UNCHANGED <<sched, fired>>
           ELSE /\ lastStart' = TickStarted(rest[1].id, probe, src, KindNow(rest[1].id))
                /\ sched' = SchedTicked(rest[1].id)
                /\ fired' = [fired EXCEPT ![rest[1].id] = @ + 1]

\* The API task's callback: the SELECT of the active API rows, then the loop.
\* A SELECT that throws is caught and logged by the callback.
apiSweep(i, query) ==
    /\ i \in pending
    /\ cronTasks[i].kind = "api"
    /\ pending' = pending \ {i}
    /\ LET ids == SeqOfSet(ActiveOfType("API"))
           rows == IF query = "ok"
                   THEN [k \in 1..Len(ids) |-> ApiSweepEntry(ids[k])]
                   ELSE <<>>
       IN  runSweepLoop(i, rows, "http", "api_sweep")
    /\ lastDone' = NoDone
    /\ UNCHANGED <<now, cronTasks, apiMonitorTask, certMonitorTask, Urls, nextId,
                   MonitoringLogs, inflight, ops, starts, stoppedAll, stopMark>>

\* The certificate task's callback: the SELECT of the active DOMAIN rows, then the loop.
certSweep(i, query) ==
    /\ i \in pending
    /\ cronTasks[i].kind = "cert"
    /\ pending' = pending \ {i}
    /\ LET ids == SeqOfSet(ActiveOfType("DOMAIN"))
           rows == IF query = "ok"
                   THEN [k \in 1..Len(ids) |-> CertSweepEntry(ids[k])]
                   ELSE <<>>
       IN  runSweepLoop(i, rows, "tls", "cert_sweep")
    /\ lastDone' = NoDone
    /\ UNCHANGED <<now, cronTasks, apiMonitorTask, certMonitorTask, Urls, nextId,
                   MonitoringLogs, inflight, ops, starts, stoppedAll, stopMark>>

\* Variant of the HTTP probe's writes without the foreign key of MonitoringLogs:
\* the INSERT is accepted for a url_id that is no longer in Urls.
ApiWritesNoForeignKey(id, r) ==
    /\ Urls' = IF id \in DOMAIN Urls /\ r.wroteUrl
               THEN [Urls EXCEPT ![id].last_status = r.status,
                                 ![id].last_checked_at = EpochBase + now]
               ELSE Urls
    /\ MonitoringLogs' =
           IF r.wroteLog
           THEN [MonitoringLogs EXCEPT ![id] =
                    [n |-> @.n + 1, status |-> r.status, code |-> r.statusCode,
                     error |-> r.error]]
           ELSE MonitoringLogs

\* ------------------------------------------------------ the store writes
\* UPDATE Urls SET last_status, last_checked_at, last_latency; INSERT INTO MonitoringLogs.
\* A row deleted meanwhile: the UPDATE matches nothing and the INSERT fails on the
\* foreign key, which the probe catches.
ApiWrites(id, r) ==
    /\ Urls' = IF id \in DOMAIN Urls /\ r.wroteUrl
               THEN [Urls EXCEPT ![id].last_status = r.status,
                                 ![id].last_checked_at = EpochBase + now]
               ELSE Urls
    /\ MonitoringLogs' =
           IF id \in DOMAIN Urls /\ r.wroteLog
           THEN [MonitoringLogs EXCEPT ![id] =
                    [n |-> @.n + 1, status |-> r.status, code |-> r.statusCode,
                     error |-> r.error]]
           ELSE MonitoringLogs

\* Variant of the TLS probe's UPDATE without its WHERE id = ?: every row is written.
CertWritesEveryRow(id, r) ==
    /\ Urls' = IF id \in DOMAIN Urls /\ r.wroteUrl
               THEN [i \in DOMAIN Urls |->
                        [Urls[i] EXCEPT !.certificate_status = r.status,
                                        !.days_remaining = r.daysRemaining,
                                        !.last_status = r.overallStatus,
                                        !.last_checked_at = EpochBase + now]]
               ELSE Urls
    /\ UNCHANGED MonitoringLogs

\* UPDATE Urls SET certificate_status, days_remaining, last_status, last_checked_at
\* [, last_error].
CertWrites(id, r) ==
    /\ Urls' = IF id \in DOMAIN Urls /\ r.wroteUrl
               THEN [Urls EXCEPT ![id].certificate_status = r.status,
                                 ![id].days_remaining = r.daysRemaining,
                                 ![id].last_status = r.overallStatus,
                                 ![id].last_checked_at = EpochBase + now,
                                 ![id].last_error =
                                     IF r.lastError = "keep" THEN @ ELSE r.lastError]
               ELSE Urls
    /\ UNCHANGED MonitoringLogs

StatusBefore(id) == IF id \in DOMAIN Urls THEN Urls[id].last_status ELSE "gone"

ApiDone(id, src, reply, store, r) ==
    [id |-> id, probe |-> "http", src |-> src, noResponse |-> reply = 0,
     store |-> store, status |-> r.status, cert |-> "none", days |-> <<>>,
     alert |-> r.alert, alertUser |-> r.alertUser, threw |-> r.threw,
     before |-> StatusBefore(id)]

CertDone(id, src, reply, store, r, alert, alertUser) ==
    [id |-> id, probe |-> "tls", src |-> src, noResponse |-> r.status = "not_reachable",
     store |-> store, status |-> r.overallStatus, cert |-> r.status,
     days |-> r.daysRemaining, alert |-> alert, alertUser |-> alertUser,
     threw |-> r.threw, before |-> StatusBefore(id)]

\* ------------------------------------------------------ probes finishing
\* await apiMonitorService.checkApiUrlStatus(urlEntry) returns in the API sweep,
\* and the loop goes on; a probe that throws ends the loop in the callback's catch.
apiProbeDone(i, reply, store) ==
    /\ i \in DOMAIN sweeps
    /\ cronTasks[i].kind = "api"
    /\ sweeps[i] # <<>>
    /\ LET entry == Head(sweeps[i])
           r == CheckApiUrlStatus(entry, reply, store)
       IN  /\ ApiWrites(entry.id, r)
           /\ lastDone' = ApiDone(entry.id, "api_sweep", reply, store, r)
           /\ runSweepLoop(i, IF r.threw THEN <<>> ELSE Tail(sweeps[i]),
                           "http", "api_sweep")
    /\ UNCHANGED <<now, cronTasks, apiMonitorTask, certMonitorTask, nextId, pending,
                   inflight, ops, starts, stoppedAll, stopMark>>

\* await certMonitorService.checkCertStatus(urlEntry) returns in the certificate
\* sweep, which then decides on the alert, and the loop goes on.
certProbeDone(i, reply, store) ==
    /\ i \in DOMAIN sweeps
    /\ cronTasks[i].kind = "cert"
    /\ sweeps[i] # <<>>
    /\ LET entry == Head(sweeps[i])
           r == CheckCertStatus(entry, reply, store)
           due == ~r.threw /\ CertAlertDue(r)
       IN  /\ CertWrites(entry.id, r)
           /\ lastDone' = CertDone(entry.id, "cert_sweep", reply, store, r,
                                   IF due THEN "cert_expiry" ELSE "none",
                                   IF due THEN entry.user_id ELSE 0)
           /\ runSweepLoop(i, IF r.threw THEN <<>> ELSE Tail(sweeps[i]),
                           "tls", "cert_sweep")
    /\ UNCHANGED <<now, cronTasks, apiMonitorTask, certMonitorTask, nextId, pending,
                   inflight, ops, starts, stoppedAll, stopMark>>

RemoveAt(seq, k) == [j \in 1..(Len(seq) - 1) |-> IF j < k THEN seq[j] ELSE seq[j + 1]]

\* The probe entered by scheduleMonitor() finishes: API URL.
immediateApiDone(k, reply, store) ==
    /\ k \in DOMAIN inflight
    /\ inflight[k].probe = "http"
    /\ LET entry == inflight[k]
           r == CheckApiUrlStatus(entry, reply, store)
       IN  /\ ApiWrites(entry.id, r)
           /\ lastDone' = ApiDone(entry.id, "immediate", reply, store, r)
    /\ inflight' = RemoveAt(inflight, k)
    /\ lastStart' = NoStart
    /\ UNCHANGED <<now, cronTasks, apiMonitorTask, certMonitorTask, nextId, pending,
                   sweeps, ops, starts, stoppedAll, stopMark, sched, fired>>

\* The probe entered by scheduleMonitor() finishes: DOMAIN URL.  scheduleMonitor()
\* drops the result: it calls no alert.
immediateCertDone(k, reply, store) ==
    /\ k \in DOMAIN inflight
    /\ inflight[k].probe = "tls"
    /\ LET entry == inflight[k]
           r == CheckCertStatus(entry, reply, store)
       IN  /\ CertWrites(entry.id, r)
           /\ lastDone' = CertDone(entry.id, "immediate", reply, store, r, "none", 0)
    /\ inflight' = RemoveAt(inflight, k)
    /\ lastStart' = NoStart
    /\ UNCHANGED <<now, cronTasks, apiMonitorTask, certMonitorTask, nextId, pending,
                   sweeps, ops, starts, stoppedAll, stopMark, sched, fired>>


\* ------------------------------------------------ probes called on their own
\* The rows a probe function is called with.
CallTables ==
    {<<NewRow(1, "API", 1, TRUE, TRUE)>>,
     <<NewRow(1, "DOMAIN", 1, TRUE, TRUE)>>,
     <<[NewRow(1, "DOMAIN", 1, TRUE, FALSE) EXCEPT
            !.last_status = "down", !.last_checked_at = EpochBase - 1,
            !.certificate_status = "not_reachable", !.last_error = "tls_error"]>>,
     <<[NewRow(1, "DOMAIN", 1, TRUE, TRUE) EXCEPT !.parses = FALSE]>>}

\* What the target answers to one TLS connection: notAfter - now in hours.
TlsReplies ==
    TlsCerts({0 - 25, 0 - 1, 0, 1, 97, 120, 121, 720, 721}) \cup TlsOther

\* What the target answers to one GET.
HttpReplies ==
    [kind : {"response"}, status : {200, 204, 301, 404, 499, 500, 503}]
    \cup [kind : {"timeout", "refused", "dns"}, status : {0}]

CallFree == call.phase \in {"idle", "returned"} /\ call.n < MaxCalls

schedulerVars == <<now, cronTasks, apiMonitorTask, certMonitorTask, nextId, pending,
                   sweeps, inflight, ops, starts, stoppedAll, stopMark, sched, fired,
                   lastStart, lastDone, AlertConfigs>>

\* NULL in MonitoringLogs.status_code.
NullCode == 0 - 1

\* checkApiUptime's finally block: the UPDATE of Urls and the INSERT INTO
\* MonitoringLogs, each in a try/catch of its own.
UptimeWrites(id, r, store) ==
    /\ Urls' = IF store \notin {"update_fails", "both_fail"}
               THEN [Urls EXCEPT ![id].last_status = r.status,
                                 ![id].last_checked_at = EpochBase + now,
                                 ![id].last_error = r.error]
               ELSE Urls
    /\ MonitoringLogs' =
           IF store \notin {"insert_fails", "both_fail"}
           THEN [MonitoringLogs EXCEPT ![id] =
                    [n |-> @.n + 1, status |-> r.status,
                     code |-> IF r.statusCode = <<>> THEN NullCode ELSE r.statusCode[1],
                     error |-> r.error]]
           ELSE MonitoringLogs

\* checkApiUrlStatus(urlObject) called and run to its end: it has no return statement.
\* A failed lookup of the proxy lands in the catch block like a rejected GET.
callCheckApiUrlStatus(id, reply, store) ==
    /\ CallFree
    /\ id \in DOMAIN Urls
    /\ Urls[id].type = "API"
    /\ LET r == CheckApiUrlStatus(UrlObject(id), HttpCode(reply), store)
       IN  /\ ApiWrites(id, r)
           /\ call' = [NoCall EXCEPT
                  !.fn = "checkApiUrlStatus", !.phase = "returned", !.n = call.n + 1,
                  !.id = id, !.http = reply, !.store = store,
                  !.result = [NoResult EXCEPT !.status = r.status, !.latency = "ms",
                                              !.statusCode = <<r.statusCode>>,
                                              !.error = r.error],
                  !.returned = IF r.threw THEN "none" ELSE "undefined",
                  !.threw = r.threw,
                  !.errorBefore = Urls[id].last_error,
                  !.logsBefore = MonitoringLogs[id].n]
    /\ UNCHANGED schedulerVars

\* checkApiUptime(urlId, url, proxyConfig) called and run to its end.
callCheckApiUptime(id, reply, store) ==
    /\ CallFree
    /\ id \in DOMAIN Urls
    /\ Urls[id].type = "API"
    /\ reply.kind # "proxy_lookup"
    /\ LET r == CheckApiUptime(reply)
       IN  /\ UptimeWrites(id, r, store)
           /\ call' = [NoCall EXCEPT
                  !.fn = "checkApiUptime", !.phase = "returned", !.n = call.n + 1,
                  !.id = id, !.http = reply, !.store = store,
                  !.result = [NoResult EXCEPT !.status = r.status,
                                              !.latency = r.latency,
                                              !.statusCode = r.statusCode,
                                              !.error = r.error],
                  !.returned = IF r.threw THEN "none" ELSE "result",
                  !.threw = r.threw,
                  !.errorBefore = Urls[id].last_error,
                  !.logsBefore = MonitoringLogs[id].n]
    /\ UNCHANGED schedulerVars

\* Variant of the 'timeout' handler that resolves without socket.destroy().
TimeoutHandlerKeepsSocket(c, reply) ==
    [c EXCEPT !.phase = "settled", !.settles = Min(@ + 1, 2),
              !.tls = IF c.settles = 0 THEN reply ELSE @]

\* The callback of tls.connect(): the certificate is read and classified, then
\* finally socket.destroy() and the promise is settled.
SecureConnectHandler(c, reply) ==
    [c EXCEPT !.phase = "settled", !.socket = "destroyed", !.settles = Min(@ + 1, 2),
              !.tls = IF c.settles = 0 THEN reply ELSE @]

\* socket.on('error'): socket.destroy(), then the promise is settled.
ErrorHandler(c, reply) ==
    [c EXCEPT !.phase = "settled", !.socket = "destroyed", !.settles = Min(@ + 1, 2),
              !.tls = IF c.settles = 0 THEN reply ELSE @]

\* socket.on('timeout'): socket.destroy(), then the promise is settled.
TimeoutHandler(c, reply) ==
    [c EXCEPT !.phase = "settled", !.socket = "destroyed", !.settles = Min(@ + 1, 2),
              !.tls = IF c.settles = 0 THEN reply ELSE @]

CertFns == {"checkCertStatus", "checkCertStatusForge"}

\* What checkCertStatus has computed when it reaches its return statement.
CertResultOf(fn, entry, reply, store) ==
    IF fn = "checkCertStatus" THEN CheckCertStatus(entry, reply, store)
    ELSE CheckCertStatusForge(entry, reply, store)

\* The object checkCertStatus returns: the node-forge revision's has no overallStatus.
CertReturned(fn, r) ==
    [NoResult EXCEPT !.status = IF fn = "checkCertStatus" THEN r.overallStatus ELSE "none",
                     !.cert = r.status, !.days = r.daysRemaining, !.error = r.error]

\* checkCertStatus(urlObject) called.  A URL that is not https gets its UPDATE and
\* the return at once, an https URL that new URL() does not accept ends the call
\* before any connection; for the other https URLs tls.connect() opens the socket.
callCheckCertStatus(id, fn, store) ==
    /\ CallFree
    /\ id \in DOMAIN Urls
    /\ Urls[id].type = "DOMAIN"
    /\ fn \in CertFns
    /\ LET begun == [NoCall EXCEPT !.fn = fn, !.n = call.n + 1, !.id = id,
                                   !.errorBefore = Urls[id].last_error,
                                   !.logsBefore = MonitoringLogs[id].n]
       IN  IF ~Urls[id].https \/ ~Urls[id].parses
           THEN LET r == CertResultOf(fn, UrlObject(id), NoTls, store)
                IN  /\ CertWrites(id, r)
                    /\ call' = [begun EXCEPT !.phase = "returned", !.store = store,
                                             !.result = CertReturned(fn, r),
                                             !.returned = IF r.threw THEN "none"
                                                          ELSE "result",
                                             !.threw = r.threw]
           ELSE /\ call' = [begun EXCEPT !.phase = "connecting", !.socket = "open"]
                /\ UNCHANGED <<Urls, MonitoringLogs>>
    /\ UNCHANGED schedulerVars

\* The events of the socket.  An open socket emits them; a destroyed one emits none.
onSecureConnect(reply) ==
    /\ call.socket = "open"
    /\ reply.net = "handshake"
    /\ call' = SecureConnectHandler(call, reply)
    /\ UNCHANGED <<Urls, MonitoringLogs>>
    /\ UNCHANGED schedulerVars

onError(reply) ==
    /\ call.socket = "open"
    /\ reply.net = "error"
    /\ call' = ErrorHandler(call, reply)
    /\ UNCHANGED <<Urls, MonitoringLogs>>
    /\ UNCHANGED schedulerVars

onTimeout(reply) ==
    /\ call.socket = "open"
    /\ reply.net = "timeout"
    /\ call' = TimeoutHandler(call, reply)
    /\ UNCHANGED <<Urls, MonitoringLogs>>
    /\ UNCHANGED schedulerVars

\* The await of the promise returns: the UPDATE of the row, then the return.
certReturn(store) ==
    /\ call.fn \in CertFns
    /\ call.phase = "settled"
    /\ LET r == CertResultOf(call.fn, UrlObject(call.id), call.tls, store)
       IN  /\ CertWrites(call.id, r)
           /\ call' = [call EXCEPT !.phase = "returned", !.store = store,
                                   !.result = CertReturned(call.fn, r),
                                   !.returned = "result"]
    /\ UNCHANGED schedulerVars

SocketEvent ==
    \/ \E reply \in TlsReplies : onSecureConnect(reply)
    \/ \E reply \in TlsReplies : onError(reply)
    \/ \E reply \in TlsReplies : onTimeout(reply)

NextCall ==
    \/ \E id \in Ids, reply \in HttpReplies \cup [kind : {"proxy_lookup"}, status : {0}],
          store \in {"ok", "update_fails", "insert_fails"} :
            callCheckApiUrlStatus(id, reply, store)
    \/ \E id \in Ids, reply \in HttpReplies,
          store \in {"ok", "update_fails", "insert_fails", "both_fail"} :
            callCheckApiUptime(id, reply, store)
    \/ \E id \in Ids, fn \in CertFns, store \in {"ok", "update_fails"} :
            callCheckCertStatus(id, fn, store)
    \/ SocketEvent
    \/ \E store \in {"ok", "update_fails"} : certReturn(store)

\* ---------------------------------------------------------- alert dispatch
Digits == {"0", "1", "2", "3", "4", "5", "6", "7", "8", "9"}

\* ".1.3.6.1.4.1.9999.1.1" and "1.3.6.1"
OidEnterprise ==
    <<".", "1", ".", "3", ".", "6", ".", "1", ".", "4", ".", "1",
      ".", "9", "9", "9", "9", ".", "1", ".", "1">>
OidNoLeadingDot == <<"1", ".", "3", ".", "6", ".", "1">>

\* Variant of the OID pattern that accepts any string of dots and digits.
OidPatternLoose(chars) ==
    chars # <<>> /\ \A i \in DOMAIN chars : chars[i] \in Digits \cup {"."}

\* /^(\.\d+)+$/ run over the characters from position i: st is "start" before the
\* first dot, "dot" after a dot, "digit" after a digit.
RECURSIVE OidScan(_, _, _)
OidScan(chars, i, st) ==
    IF i > Len(chars) THEN st = "digit"
    ELSE IF chars[i] = "." THEN st \in {"start", "digit"} /\ OidScan(chars, i + 1, "dot")
    ELSE IF chars[i] \in Digits THEN st \in {"dot", "digit"} /\ OidScan(chars, i + 1, "digit")
    ELSE FALSE

OidPattern(chars) == OidScan(chars, 1, "start")

\* Truthiness of a string column ("null" stands for NULL) and of an OID value.
Truthy(x) == x \notin {"null", ""}
TruthyOid(x) == (x.t = "string" /\ x.v # <<>>) \/ (x.t = "number" /\ x.v # <<"0">>)

\* The process-wide configuration: the environment sets the receiver and an
\* API-down OID, and a certificate-expiry OID written without its leading dot.
config ==
    [email    |-> [host |-> "smtp.example", user |-> "monitor", pass |-> "secret"],
     alerting |-> [emailRecipient |-> "admin@example.com",
                   certWarningDays |-> certWarningDays,
                   snmpApiDownOid |-> Str(OidEnterprise),
                   snmpCertExpiryOid |-> Str(OidNoLeadingDot)],
     snmp     |-> [receiverHost |-> "trap.example", community |-> "public"]]

\* The object getUserAlertConfig builds from the central config.
GlobalAlertConfig ==
    [email_recipient |-> config.alerting.emailRecipient,
     snmp_receiver_host |-> config.snmp.receiverHost,
     snmp_community |-> config.snmp.community,
     snmp_api_down_oid |-> config.alerting.snmpApiDownOid,
     snmp_cert_expiry_oid |-> config.alerting.snmpCertExpiryOid,
     cert_warning_days |-> config.alerting.certWarningDays]

\* Variant of getUserAlertConfig that fills the columns a row leaves NULL.
GetUserAlertConfigByField(rows, userId, lookup) ==
    IF lookup = "ok" /\ rows[userId] # <<>>
    THEN LET row == rows[userId][1]
             g == GlobalAlertConfig
         IN  [email_recipient |-> IF Truthy(row.email_recipient)
                                  THEN row.email_recipient ELSE g.email_recipient,
              snmp_receiver_host |-> IF Truthy(row.snmp_receiver_host)
                                     THEN row.snmp_receiver_host ELSE g.snmp_receiver_host,
              snmp_community |-> IF Truthy(row.snmp_community)
                                 THEN row.snmp_community ELSE g.snmp_community,
              snmp_api_down_oid |-> IF TruthyOid(row.snmp_api_down_oid)
                                    THEN row.snmp_api_down_oid ELSE g.snmp_api_down_oid,
              snmp_cert_expiry_oid |-> IF TruthyOid(row.snmp_cert_expiry_oid)
                                       THEN row.snmp_cert_expiry_oid
                                       ELSE g.snmp_cert_expiry_oid,
              cert_warning_days |-> row.cert_warning_days]
    ELSE GlobalAlertConfig

\* getUserAlertConfig: the user's row as it is when the SELECT finds one, the
\* central config when it finds none or fails.
GetUserAlertConfig(rows, userId, lookup) ==
    IF lookup = "ok" /\ rows[userId] # <<>> THEN rows[userId][1] ELSE GlobalAlertConfig

\* Variant of sendEmail that lets the error of sendMail through.
SendEmailUncaught(to, mail) ==
    IF ~Truthy(to) \/ ~Truthy(config.email.user) \/ ~Truthy(config.email.pass)
       \/ ~Truthy(config.email.host)
    THEN "skipped"
    ELSE IF mail = "ok" THEN "sent" ELSE "threw"

\* sendEmail: skipped without recipient or sender settings; an error of sendMail
\* is caught and logged.
SendEmail(to, mail) ==
    IF ~Truthy(to) \/ ~Truthy(config.email.user) \/ ~Truthy(config.email.pass)
       \/ ~Truthy(config.email.host)
    THEN "skipped"
    ELSE IF mail = "ok" THEN "sent" ELSE "failed"

\* sendSnmpTrap: the OID test, the receiver test, then createSession and trap; the
\* trap's callback logs an error and closes the session.
SendSnmpTrap(receiverHost, community, oid, trap) ==
    IF ~TruthyOid(oid) \/ oid.t # "string" \/ ~OidPattern(oid.v)
    THEN [outcome |-> "invalid_oid", session |-> FALSE, oid |-> oid]
    ELSE IF ~Truthy(receiverHost) \/ ~Truthy(community)
    THEN [outcome |-> "not_configured", session |-> FALSE, oid |-> oid]
    ELSE [outcome |-> IF trap = "ok" THEN "sent" ELSE "failed", session |-> TRUE,
          oid |-> oid]

\* The two channels of sendApiDownAlert and sendCertificateExpiryAlert, which differ
\* in the OID column they read: the email is awaited, then the trap is sent off.
Channels(fn, c, oid, row, userId, lookup, mail, trap) ==
    LET email == IF Truthy(c.email_recipient) THEN SendEmail(c.email_recipient, mail)
                 ELSE "none"
    IN  [NoAlert EXCEPT
            !.fn = fn, !.user = userId, !.lookup = lookup, !.row = row,
            !.config = c, !.mail = mail,
            !.email = email,
            !.trap = IF email = "threw" THEN NoTrap
                     ELSE IF Truthy(c.snmp_receiver_host) /\ TruthyOid(oid)
                     THEN SendSnmpTrap(c.snmp_receiver_host, c.snmp_community, oid, trap)
                     ELSE NoTrap,
            !.threw = email = "threw"]

SendApiDownAlert(rows, userId, lookup, mail, trap) ==
    LET c == GetUserAlertConfig(rows, userId, lookup)
    IN  Channels("sendApiDownAlert", c, c.snmp_api_down_oid, rows[userId],
                 userId, lookup, mail, trap)

\* sendCertificateExpiryAlert: the wording is chosen by daysRemaining <= 0.
SendCertificateExpiryAlert(rows, userId, daysRemaining, lookup, mail, trap) ==
    LET c == GetUserAlertConfig(rows, userId, lookup)
        a == Channels("sendCertificateExpiryAlert", c, c.snmp_cert_expiry_oid,
                      rows[userId], userId, lookup, mail, trap)
    IN  [a EXCEPT !.wording = IF DaysAtMost(daysRemaining, 0) THEN "EXPIRED" ELSE "WARNING",
                  !.days = daysRemaining]

\* The bodies a user posts to saveAlertConfig.
AlertBodies ==
    [email_recipient : {"", "ops@example.com"},
     snmp_receiver_host : {"trap.user"},
     snmp_community : {"private"},
     snmp_api_down_oid : {Str(<<>>), Str(OidEnterprise)},
     snmp_cert_expiry_oid : {Str(OidEnterprise)},
     cert_warning_days : {7, 60}]
    \cup [email_recipient : {"ops@example.com"},
          snmp_receiver_host : {""},
          snmp_community : {""},
          snmp_api_down_oid : {Str(OidNoLeadingDot), Str(<<>>)},
          snmp_cert_expiry_oid : {Str(<<>>)},
          cert_warning_days : {0, 30}]

\* alertConfigSchema: an OID is '' or matches the pattern, cert_warning_days is 1..365.
ValidAlertConfig(body) ==
    /\ body.snmp_api_down_oid.v = <<>> \/ OidPattern(body.snmp_api_down_oid.v)
    /\ body.snmp_cert_expiry_oid.v = <<>> \/ OidPattern(body.snmp_cert_expiry_oid.v)
    /\ body.cert_warning_days >= 1
    /\ body.cert_warning_days <= 365

\* saveAlertConfig: INSERT ... ON DUPLICATE KEY UPDATE, each text column `value || null`.
saveAlertConfig(user, body) ==
    /\ ValidAlertConfig(body)
    /\ AlertConfigs' = [AlertConfigs EXCEPT ![user] =
          <<[email_recipient |-> IF Truthy(body.email_recipient)
                                 THEN body.email_recipient ELSE "null",
             snmp_receiver_host |-> IF Truthy(body.snmp_receiver_host)
                                    THEN body.snmp_receiver_host ELSE "null",
             snmp_community |-> IF Truthy(body.snmp_community)
                                THEN body.snmp_community ELSE "null",
             snmp_api_down_oid |-> IF TruthyOid(body.snmp_api_down_oid)
                                   THEN body.snmp_api_down_oid ELSE Null,
             snmp_cert_expiry_oid |-> IF TruthyOid(body.snmp_cert_expiry_oid)
                                      THEN body.snmp_cert_expiry_oid ELSE Null,
             cert_warning_days |-> body.cert_warning_days]>>]
    /\ AlertConfigs' # AlertConfigs
    /\ UNCHANGED <<now, cronTasks, apiMonitorTask, certMonitorTask, Urls, nextId,
                   MonitoringLogs, pending, sweeps, inflight, ops, starts, stoppedAll,
                   stopMark, sched, fired, lastStart, lastDone, call>>

\* The OIDs sendSnmpTrap is called with.
TrapOids ==
    {Null, [t |-> "number", v |-> <<"5">>], Str(<<>>), Str(OidEnterprise),
     Str(OidNoLeadingDot), Str(<<".", "1", ".">>), Str(<<".", ".", "1">>),
     Str(<<".", "1", "a">>), Str(<<".", "1", "0">>)}

\* How a send over one channel pair goes: both work, or one of the two fails.
SendOutcomes ==
    {[mail |-> "ok", trap |-> "ok"], [mail |-> "fails", trap |-> "ok"],
     [mail |-> "ok", trap |-> "fails"]}

\* sendSnmpTrap(receiverHost, community, oid, value) called.
callSendSnmpTrap(receiverHost, community, oid, trap) ==
    /\ CallFree
    /\ call' = [NoCall EXCEPT
                  !.fn = "sendSnmpTrap", !.n = call.n + 1, !.phase = "returned",
                  !.returned = "undefined",
                  !.alert = [NoAlert EXCEPT
                                !.fn = "sendSnmpTrap",
                                !.trap = SendSnmpTrap(receiverHost, community, oid, trap)]]
    /\ UNCHANGED <<Urls, MonitoringLogs>>
    /\ UNCHANGED schedulerVars

\* sendApiDownAlert(userId, url, errorMessage) called.
callSendApiDownAlert(user, lookup, mail, trap) ==
    /\ CallFree
    /\ LET a == SendApiDownAlert(AlertConfigs, user, lookup, mail, trap)
       IN  call' = [NoCall EXCEPT
                      !.fn = "sendApiDownAlert", !.n = call.n + 1, !.phase = "returned",
                      !.returned = IF a.threw THEN "none" ELSE "undefined",
                      !.threw = a.threw, !.alert = a]
    /\ UNCHANGED <<Urls, MonitoringLogs>>
    /\ UNCHANGED schedulerVars

\* One turn of the certificate sweep's loop: checkCertStatus(urlEntry), the decision
\* on the alert, and sendCertificateExpiryAlert when it is due.
certSweepTurn(id, reply, lookup, mail, trap) ==
    /\ CallFree
    /\ id \in DOMAIN Urls
    /\ Urls[id].type = "DOMAIN"
    /\ LET entry == CertSweepEntry(id)
           r == CheckCertStatus(entry, reply, "ok")
           a == IF CertAlertDue(r)
                THEN SendCertificateExpiryAlert(AlertConfigs, entry.user_id,
                                                r.daysRemaining, lookup, mail, trap)
                ELSE [NoAlert EXCEPT !.user = entry.user_id,
                                     !.row = AlertConfigs[entry.user_id]]
       IN  /\ CertWrites(id, r)
           /\ call' = [NoCall EXCEPT
                         !.fn = "certSweepTurn", !.n = call.n + 1, !.id = id,
                         !.phase = "returned", !.tls = reply, !.store = "ok",
                         !.result = CertReturned("checkCertStatus", r),
                         !.returned = IF a.threw THEN "none" ELSE "undefined",
                         !.threw = a.threw, !.alert = a]
    /\ UNCHANGED schedulerVars

AlertTables == {<<NewRow(1, "DOMAIN", 1, TRUE, TRUE)>>}

\* notAfter - now in hours: expired, expiring now, in 5, 20 and 50 days.
AlertTlsReplies ==
    TlsCerts({0 - 25, 0 - 1, 0, 120, 480, 1200})
    \cup [net : {"error"}, cert : {"missing"}, diff : {0}]

NextAlert ==
    \/ \E body \in AlertBodies : saveAlertConfig(1, body)
    \/ \E to \in {<<"trap.example", "public">>, <<"", "public">>, <<"trap.example", "">>},
          oid \in TrapOids, trap \in {"ok", "fails"} :
            callSendSnmpTrap(to[1], to[2], oid, trap)
    \/ \E user \in Users, lookup \in {"ok", "fails"}, o \in SendOutcomes :
            callSendApiDownAlert(user, lookup, o.mail, o.trap)
    \/ \E id \in Ids, reply \in AlertTlsReplies, lookup \in {"ok", "fails"},
          o \in SendOutcomes :
            certSweepTurn(id, reply, lookup, o.mail, o.trap)

NextIn(E) ==
    /\ UNCHANGED <<call, AlertConfigs>>
    /\ \/ start(E.maxStarts)
       \/ stop
       \/ clockMinute
       \/ /\ ops < E.requests
          /\ \E user \in E.users, a \in E.adds :
                 addUrl(user, a.type, a.interval, a.active, a.https, E.maxRows)
       \/ /\ ops < E.requests
          /\ \E id \in Ids, u \in E.updates : updateUrl(id, u.field, u.value)
       \/ /\ ops < E.requests
          /\ \E id \in Ids : deleteUrl(id)
       \/ \E i \in DOMAIN cronTasks, query \in E.query : apiSweep(i, query)
       \/ \E i \in DOMAIN cronTasks, query \in E.query : certSweep(i, query)
       \/ \E i \in DOMAIN cronTasks, reply \in E.http, store \in E.store :
               apiProbeDone(i, reply, store)
       \/ \E i \in DOMAIN cronTasks, reply \in E.tls, store \in E.storeCert :
               certProbeDone(i, reply, store)
       \/ \E k \in DOMAIN inflight, reply \in E.http, store \in E.store :
               immediateApiDone(k, reply, store)
       \/ \E k \in DOMAIN inflight, reply \in E.tls, store \in E.storeCert :
               immediateCertDone(k, reply, store)

Next == NextIn(SchedulingEnv)
NextRestart == NextIn(RestartEnv)
NextProbe == NextIn(ProbeEnv)
NextReschedule == NextIn(RescheduleEnv)
NextSweep == NextIn(SweepEnv)

\* The server as server.js runs it: start() once, then requests and minutes.
Init == InitIn(SchedulingEnv)
InitRestart == InitIn(RestartEnv)
InitProbe == InitIn(ProbeEnv)
InitReschedule == InitIn(RescheduleEnv)
InitSweep == InitIn(SweepEnv)
InitCall == InitIn([tables |-> CallTables])

Spec == Init /\ [][Next]_vars
\* The scheduler module with start() called again.
SpecRestart == InitRestart /\ [][NextRestart]_vars
\* The probes under every reply of the target and of the store.
SpecProbe == InitProbe /\ [][NextProbe]_vars
\* The probe functions called on their own with the rows of CallTables.
SpecCall == InitCall /\ [][NextCall]_vars
\* The same, the socket's timeout making sure that an open socket emits an event.
SpecCallLive == InitCall /\ [][NextCall]_vars /\ WF_vars(SocketEvent)
\* One user's URLs scheduled again and again.
\* The probe functions called on the targets of a table of two.
FrameTables ==
    {<<NewRow(1, "API", 1, TRUE, TRUE), NewRow(2, "DOMAIN", 1, TRUE, TRUE)>>,
     <<NewRow(1, "DOMAIN", 1, TRUE, FALSE), NewRow(1, "API", 2, FALSE, TRUE)>>}
InitFrame == InitIn([tables |-> FrameTables])
SpecFrame == InitFrame /\ [][NextCall]_vars
\* The alert functions called on their own, and the users saving their settings.
InitAlert == InitIn([tables |-> AlertTables])
SpecAlert == InitAlert /\ [][NextAlert]_vars
SpecReschedule == InitReschedule /\ [][NextReschedule]_vars
SpecSweep == InitSweep /\ [][NextSweep]_vars

\* ------------------------------------------------------------ timers
\* The periodic timers of a URL: the running cron tasks whose SELECT returns its
\* row (is_active = TRUE and the task's type).
LiveTimers(id) ==
    IF id \in DOMAIN Urls /\ Urls[id].is_active
    THEN Cardinality({i \in DOMAIN cronTasks :
                         cronTasks[i].running /\ cronTasks[i].kind = TaskKind(Urls[id].type)})
    ELSE 0

RunningTasks == {i \in DOMAIN cronTasks : cronTasks[i].running}

\* ------------------------------------------------------------ properties
\* C1: an active URL scheduled with an interval of N minutes has had exactly one
\* tick (the immediate one) while fewer than N minutes have passed since the
\* scheduleMonitor() call, and exactly two once minute N is over.
C1_OneTickPerInterval ==
    \A id \in DOMAIN Urls :
        (sched[id].on /\ ~stoppedAll) =>
            /\ (now - sched[id].at < sched[id].n) => sched[id].ticks = 1
            /\ (now - sched[id].at = sched[id].n /\ Quiet) => sched[id].ticks = 2

\* C2: no tick of a URL starts after stopMonitor() ran for it (and
\* scheduleMonitor() did not run for it since).
C2_NoTickAfterStop ==
    lastStart.id # 0 => ~lastStart.afterStop

\* C3: after a restartMonitor() that followed a change of the interval, every
\* periodic tick of the URL starts a whole number of new intervals after the restart.
C3_NewCadenceOnly ==
    \A id \in DOMAIN Urls :
        (lastStart.id = id /\ lastStart.src # "immediate"
            /\ sched[id].on /\ sched[id].changed) =>
                (now - sched[id].at) % sched[id].n = 0

\* C4: after scheduleMonitor() ran twice in a row for an active URL, exactly one
\* running periodic task checks the URL, the scheduler still runs its two sweep
\* tasks only (the second call added no timer), and in every later minute at
\* most one periodic tick of the URL starts.
C4_ScheduleTwiceOneTimer ==
    \A id \in DOMAIN Urls :
        (sched[id].on /\ sched[id].calls >= 2 /\ ~stoppedAll) =>
            /\ LiveTimers(id) = 1
            /\ Cardinality(RunningTasks) = 2
            /\ now > sched[id].at => fired[id] <= 1

\* C4 witness: a URL scheduled twice in a row, a minute later, its sweep tick started.
C4_Witness ==
    \E id \in DOMAIN Urls :
        /\ sched[id].on /\ sched[id].calls >= 2 /\ ~stoppedAll
        /\ now > sched[id].at
        /\ fired[id] = 1
        /\ LiveTimers(id) = 1

\* C5: while the scheduler runs, every active URL has exactly one periodic timer
\* and every inactive or deleted URL has none.
C5_OneEntryPerActiveTarget ==
    (starts >= 1 /\ ~stoppedAll) =>
        \A id \in Ids :
            LiveTimers(id) = IF id \in DOMAIN Urls /\ Urls[id].is_active THEN 1 ELSE 0

\* C6: however often start() was called, no URL gets more than one periodic tick
\* in a minute, and after stop() no cron task is running.
C6_StartIdempotent ==
    /\ \A id \in Ids : fired[id] <= 1
    /\ stoppedAll => RunningTasks = {}

\* C7: every tick of a URL, immediate or periodic, runs the probe of the type the
\* URL has when the tick starts.
C7_DispatchOnCurrentKind ==
    (lastStart.id # 0 /\ lastStart.kind \in {"API", "DOMAIN"}) =>
        lastStart.probe = ProbeOf(lastStart.kind)

\* C8: no exception escapes a tick, and a tick whose probe got no
\* response or whose store write failed leaves last_status = 'down' in the row,
\* never the status of before.
C8_FailureForcesDown ==
    /\ lastDone.id # 0 => ~lastDone.threw
    /\ (/\ lastDone.id \in DOMAIN Urls
        /\ \/ lastDone.noResponse
           \/ lastDone.threw
           \/ lastDone.store = "update_fails"
           \/ lastDone.probe = "http" /\ lastDone.store = "insert_fails") =>
           Urls[lastDone.id].last_status = "down"

\* C9: a tick of the HTTP probe calls sendApiDownAlert exactly when its outcome is
\* 'down', and with the user_id of the URL's row.
C9_ApiAlertIffDown ==
    (lastDone.id # 0 /\ lastDone.probe = "http") =>
        /\ lastDone.alert = "api_down" <=> lastDone.status = "down"
        /\ lastDone.alert # "api_down" => lastDone.alert = "none" /\ lastDone.alertUser = 0
        /\ (lastDone.alert = "api_down" /\ lastDone.id \in DOMAIN Urls) =>
               lastDone.alertUser = Urls[lastDone.id].user_id

\* C9 witness: a 5xx answer to the URL of user 2, alerted to user 2.
C9_Witness ==
    /\ lastDone.id \in DOMAIN Urls
    /\ lastDone.probe = "http"
    /\ lastDone.status = "down"
    /\ ~lastDone.noResponse
    /\ lastDone.alert = "api_down"
    /\ lastDone.alertUser = 2
    /\ Urls[lastDone.id].user_id = 2

\* C10: every tick of the TLS probe, immediate or periodic, calls
\* sendCertificateExpiryAlert exactly when the result is 'expired', or 'warning'
\* with daysRemaining at most certWarningDays.
C10_CertAlertEveryTick ==
    (lastDone.id # 0 /\ lastDone.probe = "tls") =>
        (lastDone.alert = "cert_expiry" <=>
            \/ lastDone.cert = "expired"
            \/ lastDone.cert = "warning" /\ DaysAtMost(lastDone.days, certWarningDays))

\* C11: checkApiUrlStatus finds the URL 'up' exactly when a response came whose
\* status is in [200, 500); a status of 500 or above and every call without a
\* response are 'down'; the status found is the one written to the row.
C11_UpIffBelow500 ==
    (call.fn = "checkApiUrlStatus" /\ call.phase = "returned") =>
        /\ call.result.status \in {"up", "down"}
        /\ call.result.status = "up" <=>
               /\ call.http.kind = "response"
               /\ call.http.status >= 200
               /\ call.http.status < 500
        /\ call.store # "update_fails" => Urls[call.id].last_status = call.result.status

\* C11 witness: a 404 answer found 'up' and written to the row.
C11_Witness ==
    /\ call.fn = "checkApiUrlStatus"
    /\ call.phase = "returned"
    /\ call.http = [kind |-> "response", status |-> 404]
    /\ call.result.status = "up"
    /\ Urls[call.id].last_status = "up"

\* C12: in checkApiUrlStatus and in checkApiUptime, a GET that got no response
\* (timeout, connection error) gives 'down', an error message, and a status code
\* that is no code received: null, 0 or 408.
C12_NoResponseSentinel ==
    (/\ call.fn \in {"checkApiUrlStatus", "checkApiUptime"}
     /\ call.phase = "returned"
     /\ call.http.kind \in {"timeout", "refused", "dns"}) =>
        /\ call.result.status = "down"
        /\ call.result.error \notin {"null", "none"}
        /\ call.result.statusCode \in {<<>>, <<0>>, <<408>>}

\* C13 (as stated): both HTTP probes, whatever the target and the store answer,
\* end without throwing and return a result object to the caller.
C13_ReturnsResult ==
    (call.fn \in {"checkApiUrlStatus", "checkApiUptime"} /\ call.phase = "returned") =>
        /\ ~call.threw
        /\ call.returned = "result"

\* C13 (amended): both HTTP probes, whatever the target and the store answer, end
\* without throwing.  checkApiUptime returns {status, latency, statusCode, error};
\* checkApiUrlStatus returns no value: its status, status code and error are in
\* the log row it inserts when the store accepts both writes.
C13_NeverThrows ==
    (call.fn \in {"checkApiUrlStatus", "checkApiUptime"} /\ call.phase = "returned") =>
        /\ ~call.threw
        /\ call.fn = "checkApiUptime" =>
               /\ call.returned = "result"
               /\ call.result.status \in {"up", "down"}
        /\ call.fn = "checkApiUrlStatus" =>
               /\ call.returned = "undefined"
               /\ call.store = "ok" =>
                      /\ MonitoringLogs[call.id].n = call.logsBefore + 1
                      /\ MonitoringLogs[call.id].status = call.result.status
                      /\ <<MonitoringLogs[call.id].code>> = call.result.statusCode
                      /\ MonitoringLogs[call.id].error = call.result.error

\* C13 witness: checkApiUptime returns its result after a timeout and two failed
\* store writes.
C13_Witness ==
    /\ call.fn = "checkApiUptime"
    /\ call.phase = "returned"
    /\ call.http.kind = "timeout"
    /\ call.store = "both_fail"
    /\ call.returned = "result"

\* C14: a DOMAIN target whose URL is not https gets no connection; the probe reports
\* certificate state not_applicable with days_remaining null (and outcome up where
\* the returned object carries one), and the accepted UPDATE stores not_applicable,
\* up and null, in both revisions.
C14_NonHttpsNotApplicable ==
    (call.fn \in CertFns /\ call.phase = "returned" /\ ~Urls[call.id].https) =>
        /\ call.socket = "none"
        /\ call.tls = NoTls
        /\ call.result.cert = "not_applicable"
        /\ call.result.days = <<>>
        /\ (call.fn = "checkCertStatus" => call.result.status = "up")
        /\ (call.store = "ok" =>
               /\ Urls[call.id].certificate_status = "not_applicable"
               /\ Urls[call.id].last_status = "up"
               /\ Urls[call.id].days_remaining = <<>>)

C14_Witness ==
    /\ call.fn = "checkCertStatus"
    /\ call.phase = "returned"
    /\ ~Urls[call.id].https
    /\ call.store = "ok"
    /\ call.socket = "none"
    /\ Urls[call.id].last_status = "up"
    /\ Urls[call.id].certificate_status = "not_applicable"

\* C15: after a handshake with a readable certificate the native probe reports
\* days_remaining = ceil((notAfter - now) / 1 day); notAfter < now is expired with
\* days_remaining <= 0, else days_remaining <= 30 is warning, else valid; a
\* certificate in its fifth day before expiry is warning with days_remaining 5.
C15_DaysAndClass ==
    (/\ call.fn = "checkCertStatus" /\ call.phase = "returned"
     /\ call.tls.net = "handshake" /\ call.tls.cert = "ok") =>
        /\ Len(call.result.days) = 1
        /\ LET d == call.result.days[1]
               diff == call.tls.diff
           IN  /\ d * HoursPerDay >= diff
               /\ (d - 1) * HoursPerDay < diff
               /\ (diff < 0 => call.result.cert = "expired" /\ d <= 0)
               /\ (diff >= 0 /\ d <= certWarningDays => call.result.cert = "warning")
               /\ (diff >= 0 /\ d > certWarningDays => call.result.cert = "valid")
               /\ (diff = 5 * HoursPerDay => call.result.cert = "warning" /\ d = 5)

C15_Witness ==
    /\ call.fn = "checkCertStatus"
    /\ call.phase = "returned"
    /\ call.tls = [net |-> "handshake", cert |-> "ok", diff |-> 5 * HoursPerDay]
    /\ call.result.cert = "warning"
    /\ call.result.days = <<5>>

\* C16: in both revisions a completed handshake ends with outcome up, reported
\* where the returned object carries the outcome and stored by the accepted UPDATE,
\* whatever the certificate's classification.
C16_HandshakeMeansUp ==
    (/\ call.fn \in CertFns /\ call.phase = "returned"
     /\ call.tls.net = "handshake" /\ call.store = "ok") =>
        /\ Urls[call.id].last_status = "up"
        /\ (call.fn = "checkCertStatus" => call.result.status = "up")

C18_SocketClosedSettledOnce ==
    /\ [](call.socket = "open" => call.settles = 0 /\ call.phase = "connecting")
    /\ []((call.fn \in CertFns /\ call.phase \in {"settled", "returned"}
           /\ call.socket # "none") =>
              call.socket = "destroyed" /\ call.settles = 1)
    /\ (call.socket = "open" ~> call.socket = "destroyed")

C18_Witness ==
    /\ call.fn \in CertFns
    /\ call.phase = "returned"
    /\ call.tls.cert = "throws"
    /\ call.socket = "destroyed"
    /\ call.settles = 1

\* C19: in every branch of the native TLS probe whose UPDATE the store accepts, the
\* row holds the reported certificate state, days_remaining and outcome and the time
\* of the check when the probe returns, and last_error is the reported error, or
\* null when there was none.
C19_PersistedWithError ==
    (call.fn = "checkCertStatus" /\ call.phase = "returned" /\ call.store = "ok") =>
        /\ Urls[call.id].certificate_status = call.result.cert
        /\ Urls[call.id].days_remaining = call.result.days
        /\ Urls[call.id].last_status = call.result.status
        /\ Urls[call.id].last_checked_at = EpochBase + now
        /\ Urls[call.id].last_error = call.result.error

\* C20: every probe of a target that finishes, of either kind, with the store
\* accepting its writes, appends exactly one row to the target's log, and the log
\* of a target changes only by one row appended (or by the cascade of the target's
\* deletion).
C20_OneLogRowPerTick ==
    [][\A id \in Ids :
          /\ (lastDone'.id = id /\ lastDone'.store = "ok" /\ id \in DOMAIN Urls) =>
                 MonitoringLogs'[id].n = MonitoringLogs[id].n + 1
          /\ MonitoringLogs'[id] # MonitoringLogs[id] =>
                 MonitoringLogs'[id].n \in {0, MonitoringLogs[id].n + 1}]_vars

Dispatchers == {"sendApiDownAlert", "sendCertificateExpiryAlert"}

\* C21: the configuration an alert is sent with is resolved field by field: the
\* user's value where the user's row sets the field, the process-wide default where
\* there is no row or the row leaves the field unset.
C21_FieldByFieldFallback ==
    (call.alert.fn \in Dispatchers /\ call.alert.lookup = "ok") =>
        call.alert.config =
            GetUserAlertConfigByField([u \in Users |-> call.alert.row],
                                      call.alert.user, "ok")

\* C22: a session is created and a trap sent only for an OID that is a string of
\* one or more groups of a dot followed by digits: ".1.3.6.1.4.1.9999.1.1" passes
\* the test, while "1.3.6.1", the empty string and a value that is no string are
\* turned away before createSession.
C22_NoTrapForMalformedOid ==
    LET tr == call.alert.trap
        chars == tr.oid.v
    IN  tr.outcome # "none" =>
          /\ (tr.session \/ tr.outcome \in {"sent", "failed", "not_configured"}) =>
                /\ tr.oid.t = "string"
                /\ chars # <<>>
                /\ chars[1] = "."
                /\ chars[Len(chars)] \in Digits
                /\ \A i \in DOMAIN chars : chars[i] \in Digits \cup {"."}
                /\ \A i \in 1..(Len(chars) - 1) : ~(chars[i] = "." /\ chars[i + 1] = ".")
          /\ tr.oid = Str(OidEnterprise) => tr.outcome # "invalid_oid"
          /\ (tr.oid.t # "string" \/ tr.oid \in {Str(<<>>), Str(OidNoLeadingDot)}) =>
                tr.outcome = "invalid_oid" /\ ~tr.session
          /\ tr.outcome \in {"sent", "failed"} <=> tr.session

C22_Witness ==
    /\ call.alert.fn = "sendCertificateExpiryAlert"
    /\ call.alert.trap.oid = Str(OidNoLeadingDot)
    /\ call.alert.trap.outcome = "invalid_oid"
    /\ ~call.alert.trap.session

\* C23: sendApiDownAlert and sendCertificateExpiryAlert attempt each channel that is
\* configured whatever happens to the other one, and neither a failed send nor a
\* failed lookup of the preferences is thrown to the caller.
C23_ChannelsIndependent ==
    LET a == call.alert
        oid == IF a.fn = "sendApiDownAlert" THEN a.config.snmp_api_down_oid
               ELSE a.config.snmp_cert_expiry_oid
    IN  a.fn \in Dispatchers =>
          /\ ~a.threw
          /\ ~call.threw
          /\ call.returned = "undefined"
          /\ Truthy(a.config.email_recipient) => a.email \in {"sent", "failed"}
          /\ (Truthy(a.config.snmp_receiver_host) /\ TruthyOid(oid)) =>
                /\ a.trap.outcome # "none"
                /\ a.trap.oid = oid
          /\ a.lookup = "fails" => a.config = GlobalAlertConfig

C23_Witness ==
    /\ call.alert.fn = "sendApiDownAlert"
    /\ call.alert.lookup = "fails"
    /\ call.alert.email = "failed"
    /\ call.alert.trap.outcome = "sent"
    /\ ~call.threw

\* C25: the warning threshold applied to a DOMAIN target, in the classification and
\* in the decision to alert, is the owner's cert_warning_days when the owner has an
\* AlertConfigs row and the process-wide default when the owner has none.
C25_OwnersThreshold ==
    (/\ call.fn = "certSweepTurn"
     /\ call.tls.net = "handshake" /\ call.tls.cert = "ok" /\ call.tls.diff >= 0) =>
        LET threshold == IF call.alert.row # <<>>
                         THEN call.alert.row[1].cert_warning_days
                         ELSE config.alerting.certWarningDays
            within == call.result.days[1] <= threshold
        IN  /\ call.result.cert = "warning" <=> within
            /\ call.result.cert = "valid" <=> ~within
            /\ call.alert.fn = "sendCertificateExpiryAlert" <=> within

\* C30: the alert says EXPIRED exactly when the probe classified the certificate as
\* expired, and WARNING with the probe's days remaining exactly when it classified
\* it as warning, for every expiry time.
C30_WordingFollowsClass ==
    (call.fn = "certSweepTurn" /\ call.alert.fn = "sendCertificateExpiryAlert") =>
        /\ call.alert.wording = "EXPIRED" <=> call.result.cert = "expired"
        /\ call.alert.wording = "WARNING" <=> call.result.cert = "warning"
        /\ call.alert.days = call.result.days

\* The probes of one target that have been entered and have not finished: the
\* immediate checks in flight and the entries the running sweeps are waiting on.
ProbesInProgress(id) ==
    Cardinality({k \in DOMAIN inflight : inflight[k].id = id})
    + Cardinality({i \in DOMAIN sweeps : sweeps[i] # <<>> /\ Head(sweeps[i]).id = id})

\* C24: no two probes of one target are in progress at the same time, whether
\* started by a sweep or by the immediate check of schedule/restart.
C24_NoOverlap ==
    \A id \in Ids : ProbesInProgress(id) <= 1

\* C27: the API sweep enters the probe of a target only when at least
\* monitoring_interval_minutes have passed since the row's last_checked_at.
C27_SweepRespectsInterval ==
    (lastStart.src = "api_sweep" /\ lastStart.id \in DOMAIN Urls) =>
        \/ Urls[lastStart.id].last_checked_at = 0
        \/ (EpochBase + now) - Urls[lastStart.id].last_checked_at
               >= Urls[lastStart.id].monitoring_interval_minutes

\* C29: every log row belongs to a target that exists: the logs of a deleted
\* target are gone, a probe that finishes after its target was deleted adds no log
\* row and no status, and its refused write is not thrown by the probe.
C29_LogsOfExistingTargets ==
    /\ \A id \in Ids : id \notin DOMAIN Urls => MonitoringLogs[id] = NoLog
    /\ (lastDone.id # 0 /\ lastDone.id \notin DOMAIN Urls) => ~lastDone.threw

C29_Witness ==
    /\ lastDone.id # 0
    /\ lastDone.id \notin DOMAIN Urls
    /\ lastDone.probe = "http"
    /\ lastDone.store = "ok"
    /\ MonitoringLogs[lastDone.id] = NoLog

\* C28: a probe of target t writes only the status columns of t's row and appends
\* log rows of t only: the rows and logs of the other targets, the definition of
\* every target (url, type, interval, active, owner) and the AlertConfigs stay as
\* they were.
C28_OnlyOwnRow ==
    [][/\ AlertConfigs' = AlertConfigs
       /\ DOMAIN Urls' = DOMAIN Urls
       /\ \A id \in DOMAIN Urls :
             /\ id # call'.id =>
                   /\ Urls'[id] = Urls[id]
                   /\ MonitoringLogs'[id] = MonitoringLogs[id]
             /\ Urls'[id].type = Urls[id].type
             /\ Urls'[id].https = Urls[id].https
             /\ Urls'[id].user_id = Urls[id].user_id
             /\ Urls'[id].monitoring_interval_minutes = Urls[id].monitoring_interval_minutes
             /\ Urls'[id].is_active = Urls[id].is_active]_vars

C28_Witness ==
    /\ call.phase = "returned"
    /\ call.id = 2
    /\ call.fn = "checkCertStatus"
    /\ call.store = "ok"
    /\ Urls[2].last_checked_at = EpochBase + now
    /\ Urls[1].last_checked_at = 0
    /\ Urls[1].last_status = "null"
    /\ MonitoringLogs[1] = NoLog

\* C26: when the probe of one target in a sweep ends, however it ends, the sweep
\* goes on with the targets behind it: an exception raised for one target keeps no
\* other target of the sweep from being probed.
C26_SweepGoesOn ==
    [][\A i \in DOMAIN sweeps :
          (i \in DOMAIN sweeps' /\ sweeps[i] # <<>> /\ sweeps'[i] # sweeps[i]) =>
              sweeps'[i] = Tail(sweeps[i])]_vars

====
